---- MODULE Spec2Model ----
(***************************************************************************)
(* Model of bin_scraper.py: the page-to-calendar pipeline                  *)
(* scrape_and_generate_ical (fetch, find the day cells, parse each cell,   *)
(* filter, serialise to the .ics file).                                    *)
(*                                                                         *)
(* A Python str is the sequence of its characters, each a one-character    *)
(* string, so that replace, strip, split, strptime and the encoding of a   *)
(* printed line are computed rather than assumed.  The characters are      *)
(* those of U+0001 to U+00FF (a string of this module cannot hold most of *)
(* the characters above them).  A date is a triple <<year, month, day>>.   *)
(***************************************************************************)
EXTENDS Integers, Sequences, FiniteSets

\* ------------------------------------------------------------------------
\* Bounds of the model
\* ------------------------------------------------------------------------

\* the largest number of day cells find_all returns in the model
MaxCells == 2

\* ------------------------------------------------------------------------
\* Python str / bs4 helpers
\* ------------------------------------------------------------------------

\* what str.strip() removes and \s of a str pattern matches: the characters
\* with str.isspace(), U+0009 to U+000D, U+001C to U+001F, U+0020, U+0085
\* and U+00A0 (the whitespace above U+00FF, such as U+2003 or U+3000, is
\* whitespace for Python as well, but not a character of this alphabet)
Whitespace ==
    {"\t", "\n", "", "\f", "\r", "", "", "", "", " ", "", " "}

\* the characters the ascii codec encodes, U+0001 to U+007F (the grave
\* accent, which a string of this module cannot hold, is left out)
AsciiChars ==
    {"", "", "", "", "", "", "", "", "\t", "\n", "", "\f",
     "\r", "", "", "", "", "", "", "", "", "", "", "",
     "", "", "", "", "", "", "", " ", "!", "\"", "#", "$",
     "%", "&", "'", "(", ")", "*", "+", ",", "-", ".", "/", "0",
     "1", "2", "3", "4", "5", "6", "7", "8", "9", ":", ";", "<",
     "=", ">", "?", "@", "A", "B", "C", "D", "E", "F", "G", "H",
     "I", "J", "K", "L", "M", "N", "O", "P", "Q", "R", "S", "T",
     "U", "V", "W", "X", "Y", "Z", "[", "\\", "]", "^", "_", "a",
     "b", "c", "d", "e", "f", "g", "h", "i", "j", "k", "l", "m",
     "n", "o", "p", "q", "r", "s", "t", "u", "v", "w", "x", "y",
     "z", "{", "|", "}", "~", ""}

\* the encodings sys.stdout can have
Encodings == {"utf-8", "ascii"}

\* print(text) raises UnicodeEncodeError: stdout cannot encode a character
\* of the text
PrintRaises(text, encoding) ==
    /\ encoding = "ascii"
    /\ \E i \in DOMAIN text : text[i] \notin AsciiChars

\* element.get('title') returning None: the attribute is missing
None == [none |-> TRUE, text |-> <<>>]

\* element.get('title') returning the attribute's value
Str(text) == [none |-> FALSE, text |-> text]

RECURSIVE LStrip(_)
LStrip(s) ==
    IF s = <<>> THEN <<>>
    ELSE IF Head(s) \in Whitespace THEN LStrip(Tail(s)) ELSE s

RECURSIVE RStrip(_)
RStrip(s) ==
    IF s = <<>> THEN <<>>
    ELSE IF s[Len(s)] \in Whitespace THEN RStrip(SubSeq(s, 1, Len(s) - 1)) ELSE s

\* str.strip()
Strip(s) == RStrip(LStrip(s))

\* s[i - 1:].startswith(pat): pat is in s at index i
MatchAt(s, pat, i) ==
    /\ i + Len(pat) - 1 <= Len(s)
    /\ SubSeq(s, i, i + Len(pat) - 1) = pat

\* the indexes of s where pat is in s
Occurrences(s, pat) == {i \in 1..(Len(s) - Len(pat) + 1) : MatchAt(s, pat, i)}

\* pat in s
Contains(s, pat) == Occurrences(s, pat) # {}

\* s[i - 1:].replace(pat, '')
RECURSIVE ReplaceFrom(_, _, _)
ReplaceFrom(s, pat, i) ==
    IF i > Len(s) THEN <<>>
    ELSE IF MatchAt(s, pat, i) THEN ReplaceFrom(s, pat, i + Len(pat))
    ELSE <<s[i]>> \o ReplaceFrom(s, pat, i + 1)

\* s.replace(pat, '') for a pat that is not empty: every non-overlapping
\* occurrence, left to right
Replace(s, pat) == ReplaceFrom(s, pat, 1)

\* s.split(pat)[0]: the part before the first occurrence of pat
SplitFirst(s, pat) ==
    LET found == Occurrences(s, pat)
    IN  IF found = {} THEN s
        ELSE SubSeq(s, 1, (CHOOSE i \in found : \A j \in found : i <= j) - 1)

\* li_element.get_text(strip=True): the text nodes of the element, each
\* stripped, the empty ones dropped, joined with nothing between them
RECURSIVE GetTextStrip(_)
GetTextStrip(nodes) ==
    IF nodes = <<>> THEN <<>>
    ELSE Strip(Head(nodes)) \o GetTextStrip(Tail(nodes))

\* element.find('li') is not None: the div has an li inside
HasLi(element) == element.lis # <<>>

\* element.find('li'): the first li inside the div
FindLi(element) == Head(element.lis)

\* element.get('title', 'No Title')
TitleOrDefault(element) ==
    IF element.title.none
    THEN <<"N", "o", " ", "T", "i", "t", "l", "e">>
    ELSE element.title.text

\* ------------------------------------------------------------------------
\* Configuration
\* ------------------------------------------------------------------------

\* the literal removed from the type label, ' Collection'
CollectionSuffix == <<" ", "C", "o", "l", "l", "e", "c", "t", "i", "o", "n">>

\* the range separator ' - ' of a title
RangeSeparator == <<" ", "-", " ">>

\* the class that marks a cell as a past date
PastDateClass == "past-date"

\* ------------------------------------------------------------------------
\* datetime.strptime(s, "%A %d, %B %Y").date()
\*
\* _strptime turns the format into the regular expression
\*   (?P<A>monday|...)\s+(?P<d>3[0-1]|[1-2]\d|0[1-9]|[1-9]| [1-9]),
\*   \s+(?P<B>january|...)\s+(?P<Y>\d\d\d\d)
\* compiled with re.IGNORECASE, matches it at the start of the string, and
\* raises ValueError when it does not match, when data remains after the
\* match, or when the date does not exist.  The names are those of the C
\* locale.
\* ------------------------------------------------------------------------

\* strptime raising ValueError, in the shape of a date
ValueError == <<0, 0, 0>>

\* today before it is read from the clock
NotYet == <<0, 0, 0>>

\* the upper-case ASCII letters and their lower-case forms
AsciiUpper ==
    {"A", "B", "C", "D", "E", "F", "G", "H", "I", "J", "K", "L", "M",
     "N", "O", "P", "Q", "R", "S", "T", "U", "V", "W", "X", "Y", "Z"}

AsciiLower ==
    [A |-> "a", B |-> "b", C |-> "c", D |-> "d", E |-> "e", F |-> "f",
     G |-> "g", H |-> "h", I |-> "i", J |-> "j", K |-> "k", L |-> "l",
     M |-> "m", N |-> "n", O |-> "o", P |-> "p", Q |-> "q", R |-> "r",
     S |-> "s", T |-> "t", U |-> "u", V |-> "v", W |-> "w", X |-> "x",
     Y |-> "y", Z |-> "z"]

\* the lower-case form of an ASCII letter, the character itself otherwise
\* (no other character up to U+00FF matches an ASCII letter under
\* re.IGNORECASE)
Lower(c) == IF c \in AsciiUpper THEN AsciiLower[c] ELSE c

\* s with its ASCII letters in lower case
LowerAll(s) == [i \in 1..Len(s) |-> Lower(s[i])]

\* %A: the full weekday names
WeekdayNames ==
    { <<"m", "o", "n", "d", "a", "y">>,
      <<"t", "u", "e", "s", "d", "a", "y">>,
      <<"w", "e", "d", "n", "e", "s", "d", "a", "y">>,
      <<"t", "h", "u", "r", "s", "d", "a", "y">>,
      <<"f", "r", "i", "d", "a", "y">>,
      <<"s", "a", "t", "u", "r", "d", "a", "y">>,
      <<"s", "u", "n", "d", "a", "y">> }

\* %B: the full month names, by month number
MonthNames ==
    << <<"j", "a", "n", "u", "a", "r", "y">>,
       <<"f", "e", "b", "r", "u", "a", "r", "y">>,
       <<"m", "a", "r", "c", "h">>,
       <<"a", "p", "r", "i", "l">>,
       <<"m", "a", "y">>,
       <<"j", "u", "n", "e">>,
       <<"j", "u", "l", "y">>,
       <<"a", "u", "g", "u", "s", "t">>,
       <<"s", "e", "p", "t", "e", "m", "b", "e", "r">>,
       <<"o", "c", "t", "o", "b", "e", "r">>,
       <<"n", "o", "v", "e", "m", "b", "e", "r">>,
       <<"d", "e", "c", "e", "m", "b", "e", "r">> >>

\* the value of a decimal digit, -1 for any other character
Digit(c) ==
    CASE c = "0" -> 0 [] c = "1" -> 1 [] c = "2" -> 2 [] c = "3" -> 3
      [] c = "4" -> 4 [] c = "5" -> 5 [] c = "6" -> 6 [] c = "7" -> 7
      [] c = "8" -> 8 [] c = "9" -> 9
      [] OTHER -> -1

\* the index after the weekday name s starts with, whatever the case of
\* its letters, 0 when it starts with none (no name is the beginning of
\* another one)
WeekdayEnd(s) ==
    LET found == {name \in WeekdayNames : MatchAt(s, name, 1)}
    IN  IF found = {} THEN 0 ELSE 1 + Len(CHOOSE name \in found : TRUE)

\* the number of the month whose name is at index i of s, whatever the
\* case of its letters, 0 when none is
MonthNumber(s, i) ==
    LET found == {m \in 1..12 : MatchAt(s, MonthNames[m], i)}
    IN  IF found = {} THEN 0 ELSE CHOOSE m \in found : TRUE

\* %d at index i of s: the number of characters it takes, 2 for
\* 3[0-1] | [1-2]\d | 0[1-9], else 1 for [1-9], else 0 (no match)
DayLength(s, i) ==
    IF /\ i + 1 <= Len(s)
       /\ \/ s[i] = "3" /\ s[i + 1] \in {"0", "1"}
          \/ s[i] \in {"1", "2"} /\ Digit(s[i + 1]) >= 0
          \/ s[i] = "0" /\ Digit(s[i + 1]) >= 1
    THEN 2
    ELSE IF i <= Len(s) /\ Digit(s[i]) >= 1 THEN 1 ELSE 0

\* the day number of the n characters at index i
DayNumber(s, i, n) ==
    IF n = 2 THEN 10 * Digit(s[i]) + Digit(s[i + 1]) ELSE Digit(s[i])

\* %Y at index i of s: four digits, -1 when they are not there
YearNumber(s, i) ==
    IF i + 3 <= Len(s) /\ \A k \in i..(i + 3) : Digit(s[k]) >= 0
    THEN 1000 * Digit(s[i]) + 100 * Digit(s[i + 1])
         + 10 * Digit(s[i + 2]) + Digit(s[i + 3])
    ELSE -1

IsLeap(y) == y % 4 = 0 /\ (y % 100 # 0 \/ y % 400 = 0)

DaysInMonth(y, m) ==
    IF m = 2 THEN (IF IsLeap(y) THEN 29 ELSE 28)
    ELSE IF m \in {4, 6, 9, 11} THEN 30 ELSE 31

\* the index after a run of one or more whitespace characters starting at i
\* (a space of the format matches \s+), or 0 when s[i] is not whitespace
RECURSIVE SkipSpaces(_, _, _)
SkipSpaces(s, i, seen) ==
    IF i <= Len(s) /\ s[i] \in Whitespace THEN SkipSpaces(s, i + 1, TRUE)
    ELSE IF seen THEN i ELSE 0

\* %Y, the end of the string and the date: s holds the year at index pYear
\* and nothing after it, and day d of month m of that year exists
StrpYear(s, d, m, pYear) ==
    IF pYear = 0 \/ pYear + 3 # Len(s) \/ YearNumber(s, pYear) < 1 THEN ValueError
    ELSE IF d <= DaysInMonth(YearNumber(s, pYear), m)
         THEN <<YearNumber(s, pYear), m, d>>
         ELSE ValueError

\* %B and the spaces after it: the month name is at index pMonth
StrpMonth(s, lower, d, pMonth) ==
    IF pMonth = 0 \/ MonthNumber(lower, pMonth) = 0 THEN ValueError
    ELSE StrpYear(s, d, MonthNumber(lower, pMonth),
                  SkipSpaces(s, pMonth + Len(MonthNames[MonthNumber(lower, pMonth)]), FALSE))

\* %d, the comma and the spaces after it: the day is at index pDay
StrpDay(s, lower, pDay) ==
    IF pDay = 0 \/ DayLength(s, pDay) = 0 THEN ValueError
    ELSE IF pDay + DayLength(s, pDay) > Len(s) THEN ValueError
    ELSE IF s[pDay + DayLength(s, pDay)] # "," THEN ValueError
    ELSE StrpMonth(s, lower, DayNumber(s, pDay, DayLength(s, pDay)),
                   SkipSpaces(s, pDay + DayLength(s, pDay) + 1, FALSE))

\* %A and the spaces after it, on s and on s in lower case
StrpWeekday(s, lower) ==
    IF WeekdayEnd(lower) = 0 THEN ValueError
    ELSE StrpDay(s, lower, SkipSpaces(s, WeekdayEnd(lower), FALSE))

\* The weekday name is matched but not checked against the date; year 0000
\* matches and is no year of a date.
StrpTime(s) == StrpWeekday(s, LowerAll(s))

\* date.__ge__: a >= b
DateGE(a, b) ==
    \/ a[1] > b[1]
    \/ a[1] = b[1] /\ a[2] > b[2]
    \/ a[1] = b[1] /\ a[2] = b[2] /\ a[3] >= b[3]

\* ------------------------------------------------------------------------
\* The Record Parser's steps on one cell
\* ------------------------------------------------------------------------

\* Mutant of IsPastDate: the class attribute is compared with the marker
\* instead of searched for it.
IsPastDate_WholeAttribute(element) == element.classes = {PastDateClass}

\* 'past-date' in element.get('class', [])
IsPastDate(element) == PastDateClass \in element.classes

\* not date_str_raw: the title attribute is missing or empty
TitleMissing(date_str_raw) == date_str_raw.none \/ date_str_raw.text = <<>>

\* s.endswith(pat)
EndsWith(s, pat) ==
    /\ Len(pat) <= Len(s)
    /\ SubSeq(s, Len(s) - Len(pat) + 1, Len(s)) = pat

\* Mutant of NormalizeType: only one trailing ' Collection' is removed.
NormalizeType_SuffixOnce(bin_type_raw) ==
    Strip(IF EndsWith(bin_type_raw, CollectionSuffix)
          THEN SubSeq(bin_type_raw, 1, Len(bin_type_raw) - Len(CollectionSuffix))
          ELSE bin_type_raw)

\* bin_type = bin_type_raw.replace(' Collection', '').strip()
NormalizeType(bin_type_raw) == Strip(Replace(bin_type_raw, CollectionSuffix))

\* date_part_to_parse: the title, or the stripped part before ' - ' when
\* the title is a range
DatePartToParse(date_str_raw) ==
    IF Contains(date_str_raw, RangeSeparator)
    THEN Strip(SplitFirst(date_str_raw, RangeSeparator))
    ELSE date_str_raw

\* Mutant of FutureFilter: today itself is taken as past.
FutureFilter_Strict(parsed_date, today_, bin_type) ==
    DateGE(parsed_date, today_) /\ parsed_date # today_ /\ bin_type # <<>>

\* parsed_date >= today and bin_type
FutureFilter(parsed_date, today_, bin_type) ==
    DateGE(parsed_date, today_) /\ bin_type # <<>>

\* Mutant of MakeEvent: make_all_day() is not called.
MakeEvent_NoAllDay(uid, bin_type, parsed_date) ==
    [uid |-> uid, name |-> bin_type, begin |-> parsed_date, all_day |-> FALSE]

\* Event(); name; begin = parsed_date; make_all_day()
MakeEvent(uid, bin_type, parsed_date) ==
    [uid |-> uid, name |-> bin_type, begin |-> parsed_date, all_day |-> TRUE]

\* Mutant of EventsAdd: events with the same name and date are one event.
EventsAdd_ByValue(evs, event) ==
    IF \E e \in evs : e.name = event.name /\ e.begin = event.begin
    THEN evs ELSE evs \cup {event}

\* calendar.events.add(event), line 98: add is the method of a set (a list
\* has append and no add), so calendar.events is a set of Event objects and
\* not a sequence; an Event is equal to another one exactly when they have
\* the same uid, which the library draws at random for each Event()
EventsAdd(evs, event) ==
    IF \E e \in evs : e.uid = event.uid THEN evs ELSE evs \cup {event}

\* Mutant of IncrementFound: the counter is set instead of incremented.
IncrementFound_Assign(n) == 1

\* events_found += 1
IncrementFound(n) == n + 1

\* What lines 58-106 do with one cell: how its processing ends, and the
\* type and date it has computed by then.  The kinds, in the order of the
\* code: "past_date", "no_title", "no_li", "bad_date" (the four continue
\* statements), "filtered" (the if of line 92 is false), "accepted" (the
\* event is added and counted and line 100 prints), "exception" (the event
\* is added and counted, the print of line 100 raises, and the except clause
\* prints its warning and continues), "uncaught" (as "exception", but the
\* print of the except clause raises as well: nothing catches that).
ParseCell(element, today_, encoding) ==
    LET skip(k) == [kind |-> k, bin_type |-> <<>>, parsed_date |-> ValueError]
    IN  IF IsPastDate(element) THEN skip("past_date")
        ELSE IF TitleMissing(element.title) THEN skip("no_title")
        ELSE IF ~HasLi(element) THEN skip("no_li")
        ELSE
          LET bin_type    == NormalizeType(GetTextStrip(FindLi(element)))
              parsed_date == StrpTime(DatePartToParse(element.title.text))
              ended(k)    == [kind |-> k, bin_type |-> bin_type,
                              parsed_date |-> parsed_date]
          IN  IF parsed_date = ValueError THEN skip("bad_date")
              ELSE IF ~FutureFilter(parsed_date, today_, bin_type)
                   THEN ended("filtered")
              ELSE IF ~PrintRaises(bin_type, encoding) THEN ended("accepted")
              ELSE IF ~PrintRaises(TitleOrDefault(element), encoding)
                   THEN ended("exception")
              ELSE ended("uncaught")

\* the kinds of ParseCell in which lines 98-99 ran: the event is in the
\* calendar and is counted
EventAdded(kind) == kind \in {"accepted", "exception", "uncaught"}

\* ------------------------------------------------------------------------
\* The Serializer
\* ------------------------------------------------------------------------

\* DTSTART;VALUE=DATE:YYYYMMDD of an all-day event, as the number YYYYMMDD
DateStamp(d) == d[1] * 10000 + d[2] * 100 + d[3]

\* one VEVENT of the serialised calendar: UID, SUMMARY, and DTSTART with
\* VALUE=DATE when the event is all-day (a date-time at midnight otherwise)
SerializeEvent(e) ==
    [uid |-> e.uid, summary |-> e.name, dtstart |-> DateStamp(e.begin),
     value_date |-> e.all_day]

\* the orders in which iterating the set calendar.events can yield its
\* members, as calendar.serialize_iter() of lines 117 and 132 does: a set
\* keeps no record of the order of its add calls, and the order of its
\* iteration follows the hashes of its members, here of uids drawn at
\* random, so every order of the members is one a run can produce
IterationOrders(evs) ==
    {o \in [1..Cardinality(evs) -> evs] : \A e \in evs : \E i \in DOMAIN o : o[i] = e}

\* calendar.serialize_iter() for one iteration order
SerializeIter(order) == [i \in DOMAIN order |-> SerializeEvent(order[i])]

\* how open() / writelines() can end
WriteOutcomes == {"ok", "open_ioerror", "write_ioerror", "other_error"}

\* the file after the with-block, by outcome: open(.., 'w') truncates, so a
\* failure after it leaves a partial file
FileAfter(old, outcome, order) ==
    CASE outcome = "ok" -> [kind |-> "document", body |-> SerializeIter(order)]
      [] outcome = "open_ioerror" -> old
      [] OTHER -> [kind |-> "partial", body |-> <<>>]

\* the exit status of the non-empty branch: except IOError and except
\* Exception both sys.exit(1)
ExitAfterWriteEvents(outcome) == IF outcome = "ok" THEN 0 ELSE 1

\* Mutant of ExitAfterWriteEmpty: the empty branch exits 1 on a failure, as
\* the non-empty branch does.
ExitAfterWriteEmpty_Fatal(outcome) == IF outcome = "ok" THEN 0 ELSE 1

\* the exit status of the empty branch: except IOError only reports; any
\* other exception is not caught and ends the interpreter with status 1
ExitAfterWriteEmpty(outcome) == IF outcome = "other_error" THEN 1 ELSE 0

\* ------------------------------------------------------------------------
\* The inputs of the model: cells of the fetched page, the clock, stdout
\* ------------------------------------------------------------------------

\* text nodes of li elements
\* "General Waste Collection"
GeneralWasteCollection ==
    <<"G", "e", "n", "e", "r", "a", "l", " ", "W", "a", "s", "t",
      "e", " ", "C", "o", "l", "l", "e", "c", "t", "i", "o", "n">>

\* "Recycling"
Recycling ==
    <<"R", "e", "c", "y", "c", "l", "i", "n", "g">>

\* U+00A0 "Recycling" CR LF: whitespace around the text
RecyclingPadded ==
    <<" ", "R", "e", "c", "y", "c", "l", "i", "n", "g", "\r", "\n">>

\* "Food Collection Bin Collection Collection": the literal in the middle
\* and twice at the end
FoodCollectionBin ==
    <<"F", "o", "o", "d", " ", "C", "o", "l", "l", "e", "c", "t",
      "i", "o", "n", " ", "B", "i", "n", " ", "C", "o", "l", "l",
      "e", "c", "t", "i", "o", "n", " ", "C", "o", "l", "l", "e",
      "c", "t", "i", "o", "n">>

\* "Café Collection": a character outside ASCII
CafeCollection ==
    <<"C", "a", "f", "é", " ", "C", "o", "l", "l", "e", "c", "t",
      "i", "o", "n">>

\* " " U+000B: only whitespace
Blank ==
    <<" ", "">>

\* the li lists of a cell: no li, one li with one text node, and two li
\* elements (find takes the first)
LiLists ==
    { <<>>,
      << <<RecyclingPadded>> >>,
      << <<FoodCollectionBin>> >>,
      << <<CafeCollection>> >>,
      << <<Blank>> >>,
      << <<GeneralWasteCollection>>, <<Recycling>> >> }

\* title attributes
\* "Wednesday 31, December 2025"
Wednesday31December2025 ==
    <<"W", "e", "d", "n", "e", "s", "d", "a", "y", " ", "3", "1",
      ",", " ", "D", "e", "c", "e", "m", "b", "e", "r", " ", "2",
      "0", "2", "5">>

\* "THURSDAY  1," TAB "january" U+00A0 "2026": the same day, in other letter
\* cases, with one digit and with other whitespace
ThursdayLoose ==
    <<"T", "H", "U", "R", "S", "D", "A", "Y", " ", " ", "1", ",",
      "\t", "j", "a", "n", "u", "a", "r", "y", " ", "2", "0", "2",
      "6">>

\* "Thursday 01, January 2026 - Café": a range with a character outside ASCII
RangeToCafe ==
    <<"T", "h", "u", "r", "s", "d", "a", "y", " ", "0", "1", ",",
      " ", "J", "a", "n", "u", "a", "r", "y", " ", "2", "0", "2",
      "6", " ", "-", " ", "C", "a", "f", "é">>

\* "Sunday 29, February 2026": a day that does not exist
LeapDay2026 ==
    <<"S", "u", "n", "d", "a", "y", " ", "2", "9", ",", " ", "F",
      "e", "b", "r", "u", "a", "r", "y", " ", "2", "0", "2", "6">>

\* the title attributes of a cell: missing, empty, and the texts above
Titles ==
    { None,
      Str(<<>>),
      Str(Wednesday31December2025),
      Str(ThursdayLoose),
      Str(RangeToCafe),
      Str(LeapDay2026) }

\* the class lists of a day cell
ClassLists == { {"calendar-table-cell"}, {"calendar-table-cell", PastDateClass} }

\* the elements find_all can return
Cells == [classes : ClassLists, title : Titles, lis : LiLists]

\* the values datetime.now(tz).date() can have
Todays == { <<2025, 12, 31>>, <<2026, 1, 1>> }

\* no element bound yet
NoCell == [classes |-> {}, title |-> None, lis |-> <<>>]

\* what is at the output path before the run: nothing, or the file of an
\* earlier run
FileBefore == [kind |-> "before", body |-> <<>>]

\* ------------------------------------------------------------------------
\* State
\* ------------------------------------------------------------------------

VARIABLES
    pc,            \* the stage: "fetch", "extract", "loop", "output", "exit"
    exit_code,     \* the process's exit status; -1 while it runs
    stderr,        \* the last failure reported on standard error, "" if none
    stdout_encoding, \* sys.stdout.encoding, set by the environment
    n_cells,       \* len(collection_blocks)
    idx,           \* the number of cells the for loop has taken
    today,         \* today, computed once before the loop
    element,       \* the loop variable: the cell being (last) processed
    last,          \* how the loop body ended on element (ParseCell's kind)
    events,        \* calendar.events
    events_found,  \* the running counter
    uid_next,      \* the next uid the ics library draws for an Event
    file,          \* the file at OUTPUT_ICS_FILE
    opened,        \* open(OUTPUT_ICS_FILE, 'w') was called
    branch,        \* the serializer branch taken: "none", "events", "empty"
    outcome,       \* how the write ended, "none" before it
    accepted       \* history: <<type, date>> of the cells taken so far that
                   \* meet the Record Parser's conditions, in page order

vars == <<pc, exit_code, stderr, stdout_encoding, n_cells, idx, today, element,
          last, events, events_found, uid_next, file, opened, branch, outcome,
          accepted>>

\* History only: the cell meets every condition of the Record Parser (not
\* past-date, title present, list item present, date parses, date >= today,
\* normalized type non-empty).  Dates are compared by their YYYYMMDD stamps.
MeetsConditions(c, t) ==
    /\ PastDateClass \notin c.classes
    /\ ~c.title.none /\ c.title.text # <<>>
    /\ c.lis # <<>>
    /\ LET d == StrpTime(DatePartToParse(c.title.text))
       IN  d # ValueError /\ DateStamp(d) >= DateStamp(t)
    /\ NormalizeType(GetTextStrip(Head(c.lis))) # <<>>

Init ==
    /\ pc = "fetch"
    /\ exit_code = -1
    /\ stderr = ""
    /\ stdout_encoding \in Encodings
    /\ n_cells = 0
    /\ idx = 0
    /\ today = NotYet
    /\ element = NoCell
    /\ last = "none"
    /\ events = {}
    /\ events_found = 0
    /\ uid_next = 1
    /\ file = FileBefore
    /\ opened = FALSE
    /\ branch = "none"
    /\ outcome = "none"
    /\ accepted = <<>>

\* ------------------------------------------------------------------------
\* Stages
\* ------------------------------------------------------------------------

\* requests.get raises RequestException (or raise_for_status does): exit 1
FetchFail ==
    /\ pc = "fetch"
    /\ stderr' = "Error fetching URL"
    /\ pc' = "exit"
    /\ exit_code' = 1
    /\ UNCHANGED <<stdout_encoding, n_cells, idx, today, element, last, events, events_found,
                   uid_next, file, opened, branch, outcome, accepted>>

\* the page was fetched; soup, calendar = Calendar(), events_found = 0
FetchOk ==
    /\ pc = "fetch"
    /\ pc' = "extract"
    /\ events' = {}
    /\ events_found' = 0
    /\ UNCHANGED <<exit_code, stderr, stdout_encoding, n_cells, idx, today, element,
                   last, uid_next, file, opened, branch, outcome, accepted>>

\* Mutant of NoCells: the error is reported but the run goes on.
NoCells_FallsThrough ==
    /\ pc = "extract"
    /\ n_cells' = 0
    /\ stderr' = "Error: Could not find any 'div' elements"
    /\ pc' = "output"
    /\ UNCHANGED <<exit_code, stdout_encoding, idx, today, element, last, events,
                   events_found, uid_next, file, opened, branch, outcome, accepted>>

\* find_all returns no element: exit 1
NoCells ==
    /\ pc = "extract"
    /\ n_cells' = 0
    /\ stderr' = "Error: Could not find any 'div' elements"
    /\ pc' = "exit"
    /\ exit_code' = 1
    /\ UNCHANGED <<stdout_encoding, idx, today, element, last, events, events_found,
                   uid_next, file, opened, branch, outcome, accepted>>

\* find_all returns n elements; today is read from the clock
FoundCells ==
    /\ pc = "extract"
    /\ \E n \in 1..MaxCells, t \in Todays :
          /\ n_cells' = n
          /\ today' = t
    /\ pc' = "loop"
    /\ UNCHANGED <<exit_code, stderr, stdout_encoding, idx, element, last, events,
                   events_found, uid_next, file, opened, branch, outcome, accepted>>

\* where the run goes after cell i of n, whose processing ended as kind:
\* the continue statements, the except clause and the end of the body go on
\* with the next cell, and to the output after the last one; an exception
\* raised inside the except clause leaves the function and the script
AfterCell(kind, i, n) ==
    IF kind = "uncaught" THEN "exit" ELSE IF i = n THEN "output" ELSE "loop"

\* the exit status after a cell: the interpreter ends with status 1 on an
\* exception nothing catches
ExitAfterCell(kind) == IF kind = "uncaught" THEN 1 ELSE -1

\* what is on standard error after a cell: the interpreter's traceback for
\* an exception nothing catches (the warnings of the loop go to stdout)
ReportAfterCell(kind, old) == IF kind = "uncaught" THEN "Traceback" ELSE old

\* one iteration of the for loop
ProcessCell ==
    /\ pc = "loop"
    /\ idx < n_cells
    /\ \E c \in Cells :
          LET r == ParseCell(c, today, stdout_encoding)
              e == MakeEvent(uid_next, r.bin_type, r.parsed_date)
          IN  /\ element' = c
              /\ last' = r.kind
              /\ IF EventAdded(r.kind)
                 THEN /\ events' = EventsAdd(events, e)
                      /\ events_found' = IncrementFound(events_found)
                      /\ uid_next' = uid_next + 1
                 ELSE UNCHANGED <<events, events_found, uid_next>>
              /\ accepted' = IF MeetsConditions(c, today)
                             THEN Append(accepted,
                                         <<NormalizeType(GetTextStrip(Head(c.lis))),
                                           StrpTime(DatePartToParse(c.title.text))>>)
                             ELSE accepted
              /\ pc' = AfterCell(r.kind, idx + 1, n_cells)
              /\ exit_code' = ExitAfterCell(r.kind)
              /\ stderr' = ReportAfterCell(r.kind, stderr)
    /\ idx' = idx + 1
    /\ UNCHANGED <<stdout_encoding, n_cells, today, file, opened, branch, outcome>>

\* what the non-empty branch reports on standard error, by outcome
ReportAfterWriteEvents(o) ==
    CASE o = "ok" -> ""
      [] o = "other_error" -> "An unexpected error occurred while writing the file"
      [] OTHER -> "Error writing iCal file"

\* what the empty branch reports on standard error, by outcome: the
\* interpreter's traceback for an exception nothing catches
ReportAfterWriteEmpty(o) ==
    CASE o = "ok" -> ""
      [] o = "other_error" -> "Traceback"
      [] OTHER -> "Error writing empty iCal file"

\* events_found > 0: write the calendar; any failure exits 1
WriteEvents ==
    /\ pc = "output"
    /\ events_found > 0
    /\ \E o \in WriteOutcomes :
          /\ outcome' = o
          /\ IF o = "ok"
             THEN \E order \in IterationOrders(events) : file' = FileAfter(file, o, order)
             ELSE file' = FileAfter(file, o, <<>>)
          /\ exit_code' = ExitAfterWriteEvents(o)
          /\ stderr' = ReportAfterWriteEvents(o)
    /\ opened' = TRUE
    /\ branch' = "events"
    /\ pc' = "exit"
    /\ UNCHANGED <<stdout_encoding, n_cells, idx, today, element, last, events, events_found,
                   uid_next, accepted>>

\* Mutant of WriteEmpty: with no event, no file is written.
WriteEmpty_NoFile ==
    /\ pc = "output"
    /\ ~(events_found > 0)
    /\ exit_code' = 0
    /\ branch' = "empty"
    /\ pc' = "exit"
    /\ UNCHANGED <<stderr, stdout_encoding, n_cells, idx, today, element, last, events, events_found,
                   uid_next, file, opened, outcome, accepted>>

\* events_found = 0: write the empty calendar; an IOError is only reported
WriteEmpty ==
    /\ pc = "output"
    /\ ~(events_found > 0)
    /\ \E o \in WriteOutcomes :
          /\ outcome' = o
          /\ IF o = "ok"
             THEN \E order \in IterationOrders(events) : file' = FileAfter(file, o, order)
             ELSE file' = FileAfter(file, o, <<>>)
          /\ exit_code' = ExitAfterWriteEmpty(o)
          /\ stderr' = ReportAfterWriteEmpty(o)
    /\ opened' = TRUE
    /\ branch' = "empty"
    /\ pc' = "exit"
    /\ UNCHANGED <<stdout_encoding, n_cells, idx, today, element, last, events, events_found,
                   uid_next, accepted>>

Next ==
    \/ FetchFail
    \/ FetchOk
    \/ NoCells
    \/ FoundCells
    \/ ProcessCell
    \/ WriteEvents
    \/ WriteEmpty

Spec == Init /\ [][Next]_vars

\* ------------------------------------------------------------------------
\* Properties
\* ------------------------------------------------------------------------

\* the title of a cell is missing or empty
NoTitle(c) == c.title.none \/ c.title.text = <<>>

\* the date the title of a cell parses to (ValueError when it does not)
DateOf(c) == StrpTime(DatePartToParse(c.title.text))

\* the text of the first li of a cell, as get_text(strip=True) returns it
RawTypeOf(c) == GetTextStrip(Head(c.lis))

\* the event the last iteration added
LastEvent == CHOOSE e \in events : e.uid = uid_next - 1

\* the VEVENT v is the all-day event of the record <<type, date>>
IsEventOf(v, rec) ==
    /\ v.summary = rec[1]
    /\ v.dtstart = rec[2][1] * 10000 + rec[2][2] * 100 + rec[2][3]
    /\ v.value_date

\* C1: when the document is written, every cell that met the Record
\* Parser's conditions has exactly one event in it, named by its normalized
\* type and dated, as an all-day event, by its parsed date: for every record
\* the document holds as many events of it as cells produced it (two cells
\* with the same date and type give two events, with different uids), and
\* every event of the document is the event of such a cell.
C1_RoundTrip ==
    file.kind = "document" =>
        /\ Len(file.body) = Len(accepted)
        /\ \A i \in DOMAIN accepted :
              Cardinality({j \in DOMAIN file.body : IsEventOf(file.body[j], accepted[i])})
                = Cardinality({k \in DOMAIN accepted : accepted[k] = accepted[i]})
        /\ \A j \in DOMAIN file.body :
              \E i \in DOMAIN accepted : IsEventOf(file.body[j], accepted[i])
        /\ \A j, k \in DOMAIN file.body :
              j # k => file.body[j].uid # file.body[k].uid

\* two cells with the same date and type were accepted and the document
\* was written
C1_Witness ==
    /\ file.kind = "document"
    /\ Len(accepted) = 2
    /\ accepted[1] = accepted[2]
    /\ Len(file.body) = 2

\* C2: a run in which the fetch failed or find_all returned nothing never
\* enters the loop or the output stage: no cell is taken, the output file is
\* never opened and stays as it was, and the exit status is not zero.
C2_EarlyExit ==
    n_cells = 0 =>
        /\ pc \in {"fetch", "extract", "exit"}
        /\ idx = 0
        /\ element = NoCell
        /\ last = "none"
        /\ ~opened
        /\ branch = "none"
        /\ file = FileBefore
        /\ pc = "exit" => exit_code > 0 /\ stderr # ""

\* the run ended because the page had no day cell
C2_Witness ==
    /\ pc = "exit"
    /\ n_cells = 0
    /\ stderr = "Error: Could not find any 'div' elements"
    /\ exit_code = 1

\* C3 as claimed: a run that found day cells none of which was accepted
\* ends with the empty calendar document in the output file and the exit
\* status 0.
C3_AlwaysEmptyDocument ==
    (pc = "exit" /\ n_cells >= 1 /\ accepted = <<>>) =>
        /\ file = [kind |-> "document", body |-> <<>>]
        /\ exit_code = 0

\* C3 amended: a run that found day cells none of which was accepted takes
\* every cell, then the empty branch, and opens the output file.  When
\* the write goes through, the file is the calendar document with no event
\* (whatever was there before), the exit status is 0 and nothing is
\* reported as an error.  When it does not, the file is not that document:
\* it is what it was when open() raised and a truncated file when the write
\* raised, and the exit status is 0 for an IOError, which is reported, and
\* 1 for any other exception.
C3_EmptyCalendar ==
    (pc = "exit" /\ n_cells >= 1 /\ accepted = <<>>) =>
        /\ idx = n_cells
        /\ events = {}
        /\ branch = "empty"
        /\ opened
        /\ outcome \in WriteOutcomes
        /\ outcome = "ok" =>
              /\ file = [kind |-> "document", body |-> <<>>]
              /\ exit_code = 0
              /\ stderr = ""
        /\ outcome = "open_ioerror" =>
              /\ file = FileBefore
              /\ exit_code = 0
              /\ stderr = "Error writing empty iCal file"
        /\ outcome = "write_ioerror" =>
              /\ file = [kind |-> "partial", body |-> <<>>]
              /\ exit_code = 0
              /\ stderr = "Error writing empty iCal file"
        /\ outcome = "other_error" =>
              /\ file = [kind |-> "partial", body |-> <<>>]
              /\ exit_code = 1

\* two cells were found, the last one was filtered out, none was accepted,
\* and the empty calendar was written
C3_Witness ==
    /\ pc = "exit"
    /\ idx = 2
    /\ last = "filtered"
    /\ accepted = <<>>
    /\ outcome = "ok"
    /\ file.kind = "document"

\* C4 as claimed: any write failure on the empty branch leaves the exit
\* status 0, and any write failure on the non-empty branch makes it non-zero.
C4_AnyWriteFailure ==
    (pc = "exit" /\ outcome \notin {"none", "ok"}) =>
        /\ branch = "empty" => exit_code = 0
        /\ branch = "events" => exit_code > 0

\* C4 amended: on the empty branch an IOError (from open or from the write)
\* is only reported and the exit status is 0, while any other exception is
\* not caught there and ends the run with a non-zero status; on the
\* non-empty branch every exception raised while writing makes the run exit
\* with status 1.
C4_WriteFailureExit ==
    (pc = "exit" /\ outcome \notin {"none", "ok"}) =>
        /\ (branch = "empty" /\ outcome \in {"open_ioerror", "write_ioerror"}) =>
              exit_code = 0 /\ stderr = "Error writing empty iCal file"
        /\ (branch = "empty" /\ outcome = "other_error") =>
              exit_code > 0 /\ stderr = "Traceback"
        /\ branch = "events" => exit_code = 1 /\ stderr # ""

\* the write of the empty calendar failed with an IOError
C4_Witness ==
    /\ pc = "exit"
    /\ branch = "empty"
    /\ outcome = "write_ioerror"
    /\ n_cells >= 1

\* a cell with one of the per-cell conditions of C5, whose processing
\* ended as kind: title missing or empty, no list item, a date that does
\* not parse, an exception raised while it was processed
Offending(c, kind) ==
    \/ NoTitle(c)
    \/ c.lis = <<>>
    \/ DateOf(c) = ValueError
    \/ kind \in {"exception", "uncaught"}

\* the run is over after at least one cell was found: every cell was taken
\* and the serializer ran
ReachedSerializer ==
    (pc = "exit" /\ n_cells >= 1) => idx = n_cells /\ branch # "none" /\ opened

\* one iteration of the loop: the run goes on (to the next cell, or to the
\* output after the last), and an offending cell adds nothing
CellStep ==
    pc = "loop" =>
        /\ idx' = idx + 1
        /\ pc' = IF idx' = n_cells THEN "output" ELSE "loop"
        /\ exit_code' = -1
        /\ Offending(element', last') =>
              /\ events' = events
              /\ events_found' = events_found

\* C5: no per-cell condition (title missing or empty, no list item, date
\* that does not parse, exception while the cell is processed) aborts the
\* run: the cell emits no record, the loop goes on with the next cell, and
\* a run that found a cell ends only after the serializer stage.
C5_NoCellAborts == [][CellStep /\ ReachedSerializer']_vars

\* C5, where the code departs from it: the first of two cells raised in
\* the print of line 100 and again in the print of the except clause; its
\* event is in the calendar, the second cell was never taken, the output
\* file was not opened and the exit status is 1
C5_Witness ==
    /\ pc = "exit"
    /\ last = "uncaught"
    /\ n_cells = 2
    /\ idx = 1
    /\ events_found = 1
    /\ ~opened
    /\ exit_code = 1

\* one iteration of the loop on a cell with the past-date class: it ends at
\* the class check and adds nothing
PastDateStep ==
    (pc = "loop" /\ PastDateClass \in element'.classes) =>
        /\ last' = "past_date"
        /\ events' = events
        /\ events_found' = events_found
        /\ uid_next' = uid_next

\* C6: a cell whose class list holds the past-date marker emits no record
\* and adds no event, whatever its title and its list item are, also when
\* its date parses to today or later.
C6_PastDateSkipped == [][PastDateStep]_vars

\* a past-date cell was taken that meets every other condition of the
\* Record Parser
C6_Witness ==
    /\ idx >= 1
    /\ PastDateClass \in element.classes
    /\ ~NoTitle(element)
    /\ element.lis # <<>>
    /\ DateOf(element) # ValueError
    /\ DateStamp(DateOf(element)) > DateStamp(today)
    /\ RawTypeOf(element) = Recycling

\* the cell reaches the future-date filter
ReachesFilter(c) ==
    /\ PastDateClass \notin c.classes
    /\ ~NoTitle(c)
    /\ c.lis # <<>>
    /\ DateOf(c) # ValueError

\* the last cell reached the future-date filter: it was accepted (its
\* event added) exactly when its date is today or later and its normalized
\* type is not empty, and then its event carries that date and that type
FilterDecides ==
    (idx >= 1 /\ ReachesFilter(element)) =>
        /\ EventAdded(last) \/ last = "filtered"
        /\ EventAdded(last) <=>
              /\ DateStamp(DateOf(element)) >= DateStamp(today)
              /\ NormalizeType(RawTypeOf(element)) # <<>>
        /\ EventAdded(last) =>
              /\ LastEvent.begin = DateOf(element)
              /\ LastEvent.name = NormalizeType(RawTypeOf(element))

\* today is read once, before the loop, and never again
TodayOnce == pc \in {"loop", "output", "exit"} => today' = today

\* C7: a cell that reaches the future-date filter is
\* accepted exactly when its parsed date is greater than or equal to today,
\* by the one today of the run, and its normalized type is not empty: a date
\* before today is excluded, today itself is included, and an empty type is
\* excluded whatever the date.
C7_FutureFilter == []FilterDecides /\ [][TodayOnce]_vars

\* a cell dated exactly today was accepted
C7_Witness ==
    /\ idx >= 1
    /\ ReachesFilter(element)
    /\ DateOf(element) = today
    /\ last = "accepted"
    /\ LastEvent.begin = today

\* the label with one trailing ' Collection' removed, if it ends in one
WithoutOneSuffix(raw) ==
    IF Len(raw) >= Len(CollectionSuffix)
       /\ SubSeq(raw, Len(raw) - Len(CollectionSuffix) + 1, Len(raw)) = CollectionSuffix
    THEN SubSeq(raw, 1, Len(raw) - Len(CollectionSuffix))
    ELSE raw

\* the positions of s that lie inside an occurrence of pat
InsideOccurrence(s, pat) ==
    {k \in 1..Len(s) :
        \E i \in 1..k : /\ k < i + Len(pat)
                        /\ i + Len(pat) - 1 <= Len(s)
                        /\ SubSeq(s, i, i + Len(pat) - 1) = pat}

\* s without the positions inside an occurrence of pat
WithoutEveryOccurrence(s, pat) ==
    LET keep == (1..Len(s)) \ InsideOccurrence(s, pat)
        nth(j) == CHOOSE k \in keep : Cardinality({m \in keep : m <= k}) = j
    IN  [j \in 1..Cardinality(keep) |-> s[nth(j)]]

\* C8 as claimed: the event name of an accepted cell is its label with one
\* trailing ' Collection' removed and every other occurrence kept.
C8_OneTrailingSuffix ==
    (idx >= 1 /\ EventAdded(last)) =>
        LastEvent.name = WithoutOneSuffix(RawTypeOf(element))

\* C8 amended: the event name of an accepted cell is its label with every
\* occurrence of ' Collection' removed, wherever it is, and the surrounding
\* whitespace trimmed: a single trailing ' Collection' is removed, a label
\* without the literal is unchanged, and an occurrence in the middle or a
\* second trailing one is removed as well.
C8_EveryOccurrence ==
    (idx >= 1 /\ EventAdded(last)) =>
        /\ LastEvent.name = Strip(WithoutEveryOccurrence(RawTypeOf(element), CollectionSuffix))
        /\ InsideOccurrence(RawTypeOf(element), CollectionSuffix) = {} =>
              LastEvent.name = RawTypeOf(element)

\* a cell whose label has ' Collection' in the middle was accepted
C8_Witness ==
    /\ idx >= 1
    /\ last = "accepted"
    /\ RawTypeOf(element) = FoodCollectionBin
    /\ Len(LastEvent.name) = 8

\* C9 as claimed: the calendar is an ordered collection built by appending,
\* and the events of the document are in the page's order of the accepted
\* cells.
C9_DocumentOrder ==
    file.kind = "document" =>
        \A i \in DOMAIN file.body \cap DOMAIN accepted :
            IsEventOf(file.body[i], accepted[i])

\* the bijections from 1..n to 1..n
Permutations(n) ==
    {f \in [1..n -> 1..n] : \A k \in 1..n : \E i \in 1..n : f[i] = k}

\* C9 amended: the calendar's events are a set built by add, not a sequence
\* built by appending: at every moment it holds one event for each cell
\* accepted so far, and the document holds these events, one each, in some
\* order, which need not be the page's order (it is the page's order when
\* at most one cell was accepted).
C9_SomeOrder ==
    /\ Cardinality(events) = Len(accepted)
    /\ file.kind = "document" =>
          /\ Len(file.body) = Len(accepted)
          /\ \E f \in Permutations(Len(accepted)) :
                \A i \in DOMAIN accepted : IsEventOf(file.body[f[i]], accepted[i])
          /\ Len(accepted) <= 1 =>
                \A i \in DOMAIN accepted : IsEventOf(file.body[i], accepted[i])

\* two different cells were accepted and the document holds the later
\* cell's event first
C9_Witness ==
    /\ file.kind = "document"
    /\ Len(accepted) = 2
    /\ accepted[1] # accepted[2]
    /\ IsEventOf(file.body[1], accepted[2])
    /\ IsEventOf(file.body[2], accepted[1])

\* C10: the counter events_found is the number of events of the calendar
\* in every state, so the non-empty branch is taken exactly when the
\* document to write holds an event and the empty branch exactly when it
\* holds none.
C10_CounterMatches ==
    /\ events_found = Cardinality(events)
    /\ branch = "events" => events # {}
    /\ branch = "empty" => events = {}
    /\ (branch # "none" /\ outcome = "ok") =>
          (branch = "events" <=> Len(file.body) > 0)

\* two cells with the same date and type were counted and the non-empty
\* branch was taken
C10_Witness ==
    /\ events_found = 2
    /\ Len(accepted) = 2
    /\ accepted[1] = accepted[2]
    /\ branch = "events"

====
